---- MODULE Spec2Model ----
(***************************************************************************)
(* Model of examples/small: the future built by work::do_work_async (a    *)
(* generator that prints, spawns a timeout thread and then awaits a       *)
(* poll_fn closure reading an AtomicBool), driven either by an arbitrary  *)
(* poller (Spec) or by main() of main.rs (SpecMain): sequential(),        *)
(* multi_threaded(), block_on(async_seq()) and block_on(async_concurrent())*)
(* one after the other on one stdout and one clock.                       *)
(* Time is a discrete clock `now` in milliseconds. A sleep ends no earlier *)
(* than its deadline; threads may run late, and the clock then passes the *)
(* moment at which they could have run (Overrun, MainOverrun).            *)
(* SpecEcho is examples/echo: listen and one handle per connection.       *)
(***************************************************************************)
EXTENDS Integers, Sequences, FiniteSets, TLC

\* ---------------------------------------------------------------- bounds
\* Tasks an arbitrary poller may create (Spec).
MaxTasks == 2
\* Largest step of the clock, in ms.
TickStep == 250
\* A thread that is late is late by LateStep ms at a time: the clock passes
\* a moment at which the thread could already run.
LateStep == 3
\* Total time, in ms, by which the threads of one run are late.
MaxLate == 6
\* Connections the echo server accepts.
MaxConns == 1
\* Bytes the peers of all connections send in all.
MaxSent == 3

\* ------------------------------------------------------ program constants
\* sleep(Duration::from_millis(500))
Delay == 500
\* join!(f1, f2, f3, f4): the four futures of async_concurrent
NumJoined == 4

\* let mut buf = [0; 1024]
BufLen == 1024

Labels == 1..NumJoined
DriverTasks == 1..MaxTasks
\* Connections the listener accepts, and the byte values a peer sends.
Conns == 1..MaxConns
Bytes == {"a", "b"}
\* A connection not yet accepted. sent: what the peer has sent; rd: how many
\* of those bytes reads have returned; buf: the part of buf that reads have
\* filled; n: the last read's result; wpos: how many of buf[0..n] write_all
\* has written; wr: what has been written back to the stream.
NoConn == [pc |-> "none", sent |-> <<>>, closed |-> FALSE, rd |-> 0,
           buf |-> <<>>, n |-> 0, wpos |-> 0, wr |-> <<>>]

VARIABLES
    gen,        \* gen[t]: state of the generator behind do_work_async(t)
    dropped,    \* dropped[t]: "no", or the state timer[t] had when the future was dropped
    flag,       \* flag[t]: the Arc<AtomicBool> of task t
    timer,      \* timer[t]: state of the timeout thread of task t
    deadline,   \* deadline[t]: the earliest end of the timeout thread's sleep
    woken,      \* woken[t]: lw.wake() was called by the last poll of t
    poll,       \* the poll in progress on the scheduling thread
    last,       \* what the most recently finished poll did
    out,        \* stdout: the lines printed since main entered the function it is in
    created,    \* created[t]: time at which the async fn called do_work_async(t), -1 if not
    doneAt,     \* doneAt[t]: time at which its poll of t returned Poll::Ready, -1 if not
    panicked,   \* the scheduling thread has panicked
    now,        \* the clock, in ms
    exec,       \* block_on: "init", then running the future, "parked", "done"
    idx,        \* join!: the child polled next; async_seq: the task awaited
    thread,     \* thread[k]: state of the thread spawned for do_work(k)
    wakeAt,     \* wakeAt[k]: the earliest end of the sleep of do_work(k)
    mainpc,     \* main: the function it is in (fn) and the statement there (op, k)
    printed,    \* lines on stdout from the functions of main that have returned
    late,       \* ms by which the clock has overrun so far
    conn        \* conn[c]: the stream of connection c and the state of handle

taskVars == <<gen, flag, timer, deadline, woken, poll, last, out, panicked>>
asyncVars == <<gen, dropped, flag, timer, deadline, woken, poll, last,
               created, doneAt, panicked, exec, idx>>
mtVars == <<thread, wakeAt, mainpc>>
vars == <<gen, dropped, flag, timer, deadline, woken, poll, last, out,
          created, doneAt, panicked, now, exec, idx, thread, wakeAt, mainpc,
          printed, late, conn>>

\* ------------------------------------------------------------ diagnostics
\* println!("starting work {} on thread {:?}", x, thread::current().id())
StartMsg(x, th) == [kind |-> "starting work", x |-> x, thread |-> th]
\* println!("work done! {} on thread {:?}", x, thread::current().id())
DoneMsg(x, th) == [kind |-> "work done!", x |-> x, thread |-> th]

\* thread::current().id() on the thread spawned for do_work(k): t1..t4 of
\* multi_threaded.
ThreadOf(k) == <<"t1", "t2", "t3", "t4">>[k]

Starts(x) == Cardinality({i \in 1..Len(out) : out[i].kind = "starting work" /\ out[i].x = x})
Dones(x) == Cardinality({i \in 1..Len(out) : out[i].kind = "work done!" /\ out[i].x = x})
FirstIndex(kind, x) ==
    LET S == {i \in 1..Len(out) : out[i].kind = kind /\ out[i].x = x}
    IN IF S = {} THEN 0 ELSE CHOOSE i \in S : \A j \in S : i <= j

Min(S) == CHOOSE m \in S : \A n \in S : m <= n

Idle == [task |-> 0, pc |-> "idle", read |-> FALSE]
NoPoll == [task |-> 0, loaded |-> FALSE, read |-> FALSE, out |-> <<>>, wakes |-> 0, result |-> "none"]

\* ------------------------------------------------------------------ init
Init ==
    /\ gen = [t \in Labels |-> "none"]
    /\ dropped = [t \in Labels |-> "no"]
    /\ flag = [t \in Labels |-> FALSE]
    /\ timer = [t \in Labels |-> "none"]
    /\ deadline = [t \in Labels |-> 0]
    /\ woken = [t \in Labels |-> FALSE]
    /\ poll = Idle
    /\ last = NoPoll
    /\ out = <<>>
    /\ created = [t \in Labels |-> -1]
    /\ doneAt = [t \in Labels |-> -1]
    /\ panicked = FALSE
    /\ now = 0
    /\ exec = "init"
    /\ idx = 0
    /\ thread = [k \in Labels |-> "none"]
    /\ wakeAt = [k \in Labels |-> 0]
    /\ mainpc = [fn |-> "sequential", op |-> "work", k |-> 1]
    /\ printed = 0
    /\ late = 0
    /\ conn = [c \in Conns |-> NoConn]

\* The values the variables take.
TypeOK ==
    /\ gen \in [Labels -> {"none", "unresumed", "running", "suspended", "returned"}]
    /\ dropped \in [Labels -> {"no", "none", "sleeping", "done"}]
    /\ flag \in [Labels -> BOOLEAN]
    /\ timer \in [Labels -> {"none", "sleeping", "done"}]
    /\ deadline \in [Labels -> Nat]
    /\ woken \in [Labels -> BOOLEAN]
    /\ poll.task \in Labels \union {0} /\ poll.pc \in {"idle", "load", "branch"}
    /\ poll.read \in BOOLEAN
    /\ (poll.task = 0) = (poll.pc = "idle")
    /\ last.task \in Labels \union {0}
    /\ last.result \in {"none", "Pending", "Ready", "panic"}
    /\ last.wakes \in {0, 1}
    /\ \A i \in 1..Len(out) : out[i].x \in Labels /\ out[i].thread \in {"main"} \union {ThreadOf(k) : k \in Labels}
    /\ created \in [Labels -> Int] /\ doneAt \in [Labels -> Int]
    /\ panicked \in BOOLEAN
    /\ now \in Nat
    /\ exec \in {"init", "calls", "join", "seq", "parked", "done"}
    /\ idx \in 0..(NumJoined + 1)
    /\ thread \in [Labels -> {"none", "spawned", "sleeping", "finished"}]
    /\ wakeAt \in [Labels -> Nat]
    /\ mainpc.fn \in {"sequential", "multi_threaded", "async_seq", "async_concurrent", "exit"}
    /\ mainpc.op \in {"work", "sleeping", "spawn", "join", "block_on", "returned"}
    /\ mainpc.k \in Labels
    /\ printed \in Nat
    /\ late \in 0..MaxLate
    /\ \A c \in Conns :
         /\ conn[c].pc \in {"none", "read", "write", "done", "panicked"}
         /\ conn[c].sent \in Seq(Bytes) /\ Len(conn[c].sent) <= MaxSent
         /\ conn[c].closed \in BOOLEAN
         /\ conn[c].rd \in 0..Len(conn[c].sent)
         /\ conn[c].buf \in Seq(Bytes) /\ Len(conn[c].buf) <= BufLen
         /\ conn[c].n \in 0..Len(conn[c].buf)
         /\ conn[c].wpos \in 0..conn[c].n
         /\ conn[c].wr \in Seq(Bytes)

\* ------------------------------------------------------- do_work_async
FlagNewSet == TRUE

\* let flag = Arc::new(AtomicBool::new(false))
FlagNew == FALSE

\* One sleep after the other: each starts when the sleeps before it have ended.
SleepUntilSerial(t) ==
    LET S == {now} \union {deadline[u] : u \in {v \in Labels : timer[v] # "none"}}
    IN (CHOOSE m \in S : \A n \in S : m >= n) + Delay

\* sleep(Duration::from_millis(500)) in the thread spawned for task t: the
\* sleep of each timeout thread starts when it is spawned.
SleepUntil(t) == now + Delay

\* The call itself runs the body up to the await!.
CallEager(t) ==
    /\ gen[t] = "none"
    /\ gen' = [gen EXCEPT ![t] = "unresumed"]
    /\ out' = Append(out, StartMsg(t, "main"))
    /\ flag' = [flag EXCEPT ![t] = FALSE]
    /\ timer' = [timer EXCEPT ![t] = "sleeping"]
    /\ deadline' = [deadline EXCEPT ![t] = now + Delay]

\* The call do_work_async(t): an async fn returns its future without running
\* any of its body (the generator is created unresumed).
Call(t) ==
    /\ gen[t] = "none"
    /\ gen' = [gen EXCEPT ![t] = "unresumed"]
    /\ UNCHANGED <<flag, timer, deadline, out>>

\* The body up to the await!, run by the first resumption: print, create the
\* flag, spawn the timeout thread.
Prologue(t) ==
    /\ out' = Append(out, StartMsg(t, "main"))
    /\ flag' = [flag EXCEPT ![t] = FlagNew]
    /\ timer' = [timer EXCEPT ![t] = "sleeping"]
    /\ deadline' = [deadline EXCEPT ![t] = SleepUntil(t)]

\* A future that can be polled again after it has returned Ready.
EnterAgain(t) ==
    /\ poll.task = 0
    /\ ~panicked
    /\ gen[t] # "none"
    /\ dropped[t] = "no"
    /\ woken' = [woken EXCEPT ![t] = FALSE]
    /\ gen' = [gen EXCEPT ![t] = "running"]
    /\ poll' = [task |-> t, pc |-> "load", read |-> FALSE]
    /\ IF gen[t] = "unresumed"
       THEN /\ out' = Append(out, StartMsg(t, "main"))
            /\ flag' = [flag EXCEPT ![t] = FALSE]
            /\ timer' = [timer EXCEPT ![t] = "sleeping"]
            /\ deadline' = [deadline EXCEPT ![t] = now + Delay]
       ELSE UNCHANGED <<flag, timer, deadline, out>>
    /\ UNCHANGED <<last, panicked>>

\* A poll of the future of task t begins. Unresumed: the body runs to the
\* await!. Suspended at the await!: the closure is polled again. Returned:
\* resuming a generator that has completed panics.
Enter(t) ==
    /\ poll.task = 0
    /\ ~panicked
    /\ gen[t] # "none"
    /\ dropped[t] = "no"
    /\ woken' = [woken EXCEPT ![t] = FALSE]
    /\ CASE gen[t] = "unresumed" ->
              /\ Prologue(t)
              /\ gen' = [gen EXCEPT ![t] = "running"]
              /\ poll' = [task |-> t, pc |-> "load", read |-> FALSE]
              /\ UNCHANGED <<last, panicked>>
         [] gen[t] = "suspended" ->
              /\ gen' = [gen EXCEPT ![t] = "running"]
              /\ poll' = [task |-> t, pc |-> "load", read |-> FALSE]
              /\ UNCHANGED <<flag, timer, deadline, out, last, panicked>>
         [] gen[t] = "returned" ->
              /\ panicked' = TRUE
              /\ last' = [NoPoll EXCEPT !.task = t, !.result = "panic"]
              /\ UNCHANGED <<gen, flag, timer, deadline, out, poll>>

\* flag.swap(false, ..): a load that resets the flag.
LoadSwap ==
    /\ poll.pc = "load"
    /\ poll' = [poll EXCEPT !.pc = "branch", !.read = flag[poll.task]]
    /\ flag' = [flag EXCEPT ![poll.task] = FALSE]
    /\ UNCHANGED <<gen, timer, deadline, woken, last, out, panicked>>

\* A poll that waits for the flag before it goes on.
LoadBlocking ==
    /\ poll.pc = "load"
    /\ flag[poll.task]
    /\ poll' = [poll EXCEPT !.pc = "branch", !.read = flag[poll.task]]
    /\ UNCHANGED <<gen, flag, timer, deadline, woken, last, out, panicked>>

\* flag.load(Ordering::SeqCst)
Load ==
    /\ poll.pc = "load"
    /\ poll' = [poll EXCEPT !.pc = "branch", !.read = flag[poll.task]]
    /\ UNCHANGED <<gen, flag, timer, deadline, woken, last, out, panicked>>

\* The closure given to poll_fn, for label x and loaded value b: what it
\* prints, how many times it calls lw.wake(), and what it returns.
PollFnEarlyPrint(x, b) ==
    IF b THEN [out |-> <<DoneMsg(x, "main")>>, wakes |-> 0, result |-> "Ready"]
         ELSE [out |-> <<DoneMsg(x, "main")>>, wakes |-> 1, result |-> "Pending"]

PollFnMisplacedWake(x, b) ==
    IF b THEN [out |-> <<DoneMsg(x, "main")>>, wakes |-> 1, result |-> "Ready"]
         ELSE [out |-> <<>>, wakes |-> 1, result |-> "Pending"]

PollFnNoWake(x, b) ==
    IF b THEN [out |-> <<DoneMsg(x, "main")>>, wakes |-> 0, result |-> "Ready"]
         ELSE [out |-> <<>>, wakes |-> 0, result |-> "Pending"]

\* if !flag.load(..): the test the wrong way round.
PollFnInverted(x, b) ==
    IF ~b THEN [out |-> <<DoneMsg(x, "main")>>, wakes |-> 0, result |-> "Ready"]
          ELSE [out |-> <<>>, wakes |-> 1, result |-> "Pending"]

PollFn(x, b) ==
    IF b THEN [out |-> <<DoneMsg(x, "main")>>, wakes |-> 0, result |-> "Ready"]
         ELSE [out |-> <<>>, wakes |-> 1, result |-> "Pending"]

\* The rest of the closure, and of the poll: Ready ends the generator,
\* Pending suspends it at the await!.
Branch ==
    /\ poll.pc = "branch"
    /\ LET t == poll.task
           r == PollFn(t, poll.read)
       IN /\ out' = out \o r.out
          /\ woken' = [woken EXCEPT ![t] = r.wakes > 0]
          /\ gen' = [gen EXCEPT ![t] = IF r.result = "Ready" THEN "returned" ELSE "suspended"]
          /\ last' = [task |-> t, loaded |-> TRUE, read |-> poll.read, out |-> r.out,
                      wakes |-> r.wakes, result |-> r.result]
    /\ poll' = Idle
    /\ UNCHANGED <<flag, timer, deadline, panicked>>

\* A drop that stops the timeout thread.
DropCancel(t) ==
    /\ poll.task = 0
    /\ ~panicked
    /\ gen[t] # "none"
    /\ dropped[t] = "no"
    /\ dropped' = [dropped EXCEPT ![t] = timer[t]]
    /\ timer' = [timer EXCEPT ![t] = IF @ = "done" THEN "done" ELSE "none"]
    /\ UNCHANGED <<gen, flag, deadline, woken, poll, last, out, panicked,
                   created, doneAt, now, exec, idx>>
    /\ UNCHANGED <<mtVars, printed, late, conn>>

\* The future is dropped between polls. Its clone of the Arc goes; the timeout
\* thread holds timeout_flag and is detached.
Drop(t) ==
    /\ poll.task = 0
    /\ ~panicked
    /\ gen[t] # "none"
    /\ dropped[t] = "no"
    /\ dropped' = [dropped EXCEPT ![t] = timer[t]]
    /\ UNCHANGED <<taskVars, created, doneAt, now, exec, idx>>
    /\ UNCHANGED <<mtVars, printed, late, conn>>

\* ------------------------------------------------------ timeout thread
\* One flag for all tasks: the store sets every task's flag.
TimerStoreShared(t) ==
    /\ timer[t] = "sleeping"
    /\ now >= deadline[t]
    /\ flag' = [u \in Labels |-> TRUE]
    /\ timer' = [timer EXCEPT ![t] = "done"]
    /\ UNCHANGED <<gen, dropped, deadline, woken, poll, last, out,
                   created, doneAt, panicked, now, exec, idx>>
    /\ UNCHANGED <<mtVars, printed, late, conn>>

\* sleep(..) returns, no earlier than Delay after it began; then
\* timeout_flag.store(true, Ordering::SeqCst), and the thread ends.
TimerStore(t) ==
    /\ timer[t] = "sleeping"
    /\ now >= deadline[t]
    /\ flag' = [flag EXCEPT ![t] = TRUE]
    /\ timer' = [timer EXCEPT ![t] = "done"]
    /\ UNCHANGED <<gen, dropped, deadline, woken, poll, last, out,
                   created, doneAt, panicked, now, exec, idx>>
    /\ UNCHANGED <<mtVars, printed, late, conn>>

\* ---------------------------------------------------------------- clock
Sleeping == {t \in Labels : timer[t] = "sleeping"}

\* Time passes with every timeout thread on time: by at most TickStep, up to
\* the earliest end of a sleep, while a sleep is running and none can end.
Advance ==
    /\ Sleeping # {}
    /\ \A t \in Sleeping : deadline[t] > now
    /\ now' = Min({now + TickStep} \union {deadline[t] : t \in Sleeping})

\* --------------------------------------------------- an arbitrary poller
DriverCall(t) ==
    /\ t \in DriverTasks
    /\ poll.task = 0
    /\ ~panicked
    /\ Call(t)
    /\ UNCHANGED <<dropped, woken, poll, last, panicked, created, doneAt, now, exec, idx>>
    /\ UNCHANGED <<mtVars, printed, late, conn>>

DriverEnter(t) ==
    /\ Enter(t)
    /\ UNCHANGED <<dropped, created, doneAt, now, exec, idx>>
    /\ UNCHANGED <<mtVars, printed, late, conn>>

DriverLoad ==
    /\ Load
    /\ UNCHANGED <<dropped, created, doneAt, now, exec, idx>>
    /\ UNCHANGED <<mtVars, printed, late, conn>>

DriverBranch ==
    /\ Branch
    /\ UNCHANGED <<dropped, created, doneAt, now, exec, idx>>
    /\ UNCHANGED <<mtVars, printed, late, conn>>

Tick ==
    /\ Advance
    /\ UNCHANGED <<taskVars, dropped, created, doneAt, exec, idx>>
    /\ UNCHANGED <<mtVars, printed, late, conn>>

\* A timeout thread is late: its sleep lasts longer than Delay, or it has
\* not yet run since its sleep ended.
TimerLate == \E t \in Sleeping : deadline[t] <= now

\* Time passes while a timeout thread is late.
Overrun ==
    /\ late + LateStep <= MaxLate
    /\ TimerLate
    /\ now' = now + LateStep
    /\ late' = late + LateStep
    /\ UNCHANGED <<taskVars, dropped, created, doneAt, exec, idx>>
    /\ UNCHANGED <<mtVars, printed, conn>>

Next ==
    \/ \E t \in Labels : DriverCall(t)
    \/ \E t \in Labels : DriverEnter(t)
    \/ DriverLoad
    \/ DriverBranch
    \/ \E t \in Labels : Drop(t)
    \/ \E t \in Labels : TimerStore(t)
    \/ Tick
    \/ Overrun

Spec == Init /\ [][Next]_vars

\* ------------------------------------------ block_on(async_concurrent())
\* block_on polls the future of async_concurrent for the first time: its body
\* starts to run.
BlockOn ==
    /\ mainpc.fn = "async_concurrent"
    /\ exec = "init"
    /\ exec' = "calls"
    /\ idx' = 1
    /\ UNCHANGED <<taskVars, dropped, created, doneAt, now>>
    /\ UNCHANGED <<mtVars, printed, late, conn>>

\* let f1 = work::do_work_async(1); ... let f4 = work::do_work_async(4);
\* after the fourth, join!(f1, f2, f3, f4) starts with f1.
ConcCall ==
    /\ exec = "calls"
    /\ Call(idx)
    /\ created' = [created EXCEPT ![idx] = now]
    /\ exec' = IF idx = NumJoined THEN "join" ELSE "calls"
    /\ idx' = IF idx = NumJoined THEN 1 ELSE idx + 1
    /\ UNCHANGED <<dropped, woken, poll, last, panicked, doneAt, now>>
    /\ UNCHANGED <<mtVars, printed, late, conn>>

\* A join that polls every child in every pass, done or not.
ConcEnterAll ==
    /\ exec = "join"
    /\ idx \in Labels
    /\ Enter(idx)
    /\ UNCHANGED <<dropped, created, doneAt, now, exec, idx>>
    /\ UNCHANGED <<mtVars, printed, late, conn>>

\* join! polls its next child, unless that child is already done (MaybeDone).
ConcEnter ==
    /\ exec = "join"
    /\ idx \in Labels
    /\ gen[idx] # "returned"
    /\ Enter(idx)
    /\ UNCHANGED <<dropped, created, doneAt, now, exec, idx>>
    /\ UNCHANGED <<mtVars, printed, late, conn>>

ConcSkip ==
    /\ exec = "join"
    /\ idx \in Labels
    /\ poll.task = 0
    /\ gen[idx] = "returned"
    /\ idx' = idx + 1
    /\ UNCHANGED <<taskVars, dropped, created, doneAt, now, exec>>
    /\ UNCHANGED <<mtVars, printed, late, conn>>

ConcLoad ==
    /\ exec = "join"
    /\ Load
    /\ UNCHANGED <<dropped, created, doneAt, now, exec, idx>>
    /\ UNCHANGED <<mtVars, printed, late, conn>>

ConcBranch ==
    /\ exec = "join"
    /\ Branch
    /\ doneAt' = [doneAt EXCEPT ![idx] = IF gen'[idx] = "returned" THEN now ELSE @]
    /\ idx' = idx + 1
    /\ UNCHANGED <<dropped, created, now, exec>>
    /\ UNCHANGED <<mtVars, printed, late, conn>>

\* join! has polled every child: Ready when all are done, else Pending, and
\* block_on parks the thread.
ConcJoin ==
    /\ exec = "join"
    /\ idx = NumJoined + 1
    /\ exec' = IF \A t \in Labels : gen[t] = "returned" THEN "done" ELSE "parked"
    /\ UNCHANGED <<taskVars, dropped, created, doneAt, now, idx>>
    /\ UNCHANGED <<mtVars, printed, late, conn>>

\* The parked thread runs again once its waker has been called, and polls the
\* future again.
Unpark ==
    /\ mainpc.fn = "async_concurrent"
    /\ exec = "parked"
    /\ \E t \in Labels : woken[t]
    /\ woken' = [t \in Labels |-> FALSE]
    /\ exec' = "join"
    /\ idx' = 1
    /\ UNCHANGED <<gen, dropped, flag, timer, deadline, poll, last, out,
                   created, doneAt, panicked, now>>
    /\ UNCHANGED <<mtVars, printed, late, conn>>

\* The scheduling thread has work that needs no waiting: a future not yet
\* started, or one whose flag is set and that has not been seen Ready.
ExecutorBusy ==
    \/ exec = "calls"
    \/ /\ exec \in {"join", "parked"}
       /\ \E t \in Labels : gen[t] = "unresumed" \/ (flag[t] /\ gen[t] # "returned")

\* Everything in block_on(async_concurrent()) is on time and a timeout thread
\* is in its sleep: the scheduling thread has nothing but waiting to do.
ConcWaiting ==
    /\ mainpc.fn = "async_concurrent"
    /\ ~ExecutorBusy
    /\ Sleeping # {}
    /\ \A t \in Sleeping : deadline[t] > now

\* Time passes while the scheduling thread has nothing but waiting to do.
ConcTick ==
    /\ ConcWaiting
    /\ Advance
    /\ UNCHANGED <<taskVars, dropped, created, doneAt, exec, idx>>
    /\ UNCHANGED <<mtVars, printed, late, conn>>

ConcExec ==
    \/ BlockOn
    \/ ConcCall
    \/ ConcEnter
    \/ ConcSkip
    \/ ConcLoad
    \/ ConcBranch
    \/ ConcJoin
    \/ Unpark

\* The timeout threads are scheduled and time passes; the poller may stop.
FairTimers ==
    /\ Spec
    /\ WF_vars(Tick)
    /\ \A t \in DriverTasks : WF_vars(TimerStore(t))

\* ------------------------------------------------- block_on(async_seq())
\* block_on polls the future of async_seq for the first time.
SeqBlockOn ==
    /\ mainpc.fn = "async_seq"
    /\ exec = "init"
    /\ exec' = "seq"
    /\ idx' = 1
    /\ UNCHANGED <<taskVars, dropped, created, doneAt, now>>
    /\ UNCHANGED <<mtVars, printed, late, conn>>

\* await!(work::do_work_async(idx)): the call that creates the future.
SeqCall ==
    /\ exec = "seq"
    /\ poll.task = 0
    /\ Call(idx)
    /\ created' = [created EXCEPT ![idx] = now]
    /\ UNCHANGED <<dropped, woken, poll, last, panicked, doneAt, now, exec, idx>>
    /\ UNCHANGED <<mtVars, printed, late, conn>>

\* await! polls the future it waits for.
SeqEnter ==
    /\ exec = "seq"
    /\ gen[idx] \in {"unresumed", "suspended"}
    /\ Enter(idx)
    /\ UNCHANGED <<dropped, created, doneAt, now, exec, idx>>
    /\ UNCHANGED <<mtVars, printed, late, conn>>

SeqLoad ==
    /\ exec = "seq"
    /\ Load
    /\ UNCHANGED <<dropped, created, doneAt, now, exec, idx>>
    /\ UNCHANGED <<mtVars, printed, late, conn>>

\* An await! that goes on to the next statement whatever the poll returned.
SeqBranchNoAwait ==
    /\ exec = "seq"
    /\ Branch
    /\ doneAt' = [doneAt EXCEPT ![idx] = IF gen'[idx] = "returned" THEN now ELSE @]
    /\ exec' = IF idx = NumJoined THEN "done" ELSE "seq"
    /\ idx' = IF idx = NumJoined THEN idx ELSE idx + 1
    /\ UNCHANGED <<dropped, created, now>>
    /\ UNCHANGED <<mtVars, printed, late, conn>>

\* The poll returns. Ready: async_seq goes on to its next await!, or returns
\* after the fourth. Pending: async_seq yields and block_on parks the thread.
SeqBranch ==
    /\ exec = "seq"
    /\ Branch
    /\ doneAt' = [doneAt EXCEPT ![idx] = IF gen'[idx] = "returned" THEN now ELSE @]
    /\ exec' = IF gen'[idx] # "returned" THEN "parked"
               ELSE IF idx = NumJoined THEN "done" ELSE "seq"
    /\ idx' = IF gen'[idx] = "returned" /\ idx < NumJoined THEN idx + 1 ELSE idx
    /\ UNCHANGED <<dropped, created, now>>
    /\ UNCHANGED <<mtVars, printed, late, conn>>

\* The parked thread runs again once its waker has been called.
SeqUnpark ==
    /\ mainpc.fn = "async_seq"
    /\ exec = "parked"
    /\ woken[idx]
    /\ woken' = [t \in Labels |-> FALSE]
    /\ exec' = "seq"
    /\ UNCHANGED <<gen, dropped, flag, timer, deadline, poll, last, out,
                   created, doneAt, panicked, now, idx>>
    /\ UNCHANGED <<mtVars, printed, late, conn>>

\* The scheduling thread has work that needs no waiting.
SeqBusy ==
    /\ exec \in {"seq", "parked"}
    /\ gen[idx] \in {"none", "unresumed"} \/ (flag[idx] /\ gen[idx] # "returned")

\* Everything in block_on(async_seq()) is on time and the timeout thread of
\* the task awaited is in its sleep.
SeqWaiting ==
    /\ mainpc.fn = "async_seq"
    /\ ~SeqBusy
    /\ Sleeping # {}
    /\ \A t \in Sleeping : deadline[t] > now

\* Time passes while async_seq has nothing but waiting to do.
SeqTick ==
    /\ SeqWaiting
    /\ Advance
    /\ UNCHANGED <<taskVars, dropped, created, doneAt, exec, idx>>
    /\ UNCHANGED <<mtVars, printed, late, conn>>

\* ---------------------------------------------------------- sequential
\* do_work(k) on the main thread: the start line, then sleep(..) begins.
SequentialStart ==
    /\ mainpc.fn = "sequential"
    /\ mainpc.op = "work"
    /\ out' = Append(out, StartMsg(mainpc.k, "main"))
    /\ wakeAt' = [wakeAt EXCEPT ![mainpc.k] = now + Delay]
    /\ mainpc' = [mainpc EXCEPT !.op = "sleeping"]
    /\ UNCHANGED <<asyncVars, now, thread, printed, late, conn>>

\* sleep(..) returns, no earlier than Delay after it began; then the done
\* line; do_work(k) returns and sequential goes on to do_work(k + 1), or
\* returns after the fourth.
SequentialDone ==
    /\ mainpc.fn = "sequential"
    /\ mainpc.op = "sleeping"
    /\ now >= wakeAt[mainpc.k]
    /\ out' = Append(out, DoneMsg(mainpc.k, "main"))
    /\ mainpc' = IF mainpc.k = NumJoined
                 THEN [mainpc EXCEPT !.op = "returned"]
                 ELSE [mainpc EXCEPT !.op = "work", !.k = @ + 1]
    /\ UNCHANGED <<asyncVars, now, thread, wakeAt, printed, late, conn>>

\* The main thread is in its sleep, on time.
SequentialWaiting ==
    /\ mainpc.fn = "sequential"
    /\ mainpc.op = "sleeping"
    /\ wakeAt[mainpc.k] > now

\* Time passes during the sleep of the main thread.
SequentialTick ==
    /\ SequentialWaiting
    /\ now' = Min({now + TickStep, wakeAt[mainpc.k]})
    /\ UNCHANGED <<asyncVars, out, mtVars, printed, late, conn>>

\* sequential() has returned and main calls multi_threaded(): the lines
\* printed so far stay on stdout.
SequentialReturn ==
    /\ mainpc.fn = "sequential"
    /\ mainpc.op = "returned"
    /\ mainpc' = [fn |-> "multi_threaded", op |-> "spawn", k |-> 1]
    /\ printed' = printed + Len(out)
    /\ out' = <<>>
    /\ wakeAt' = [k \in Labels |-> 0]
    /\ UNCHANGED <<asyncVars, now, thread, late, conn>>

\* ------------------------------------------------------ multi_threaded
\* let tk = thread::spawn(|| work::do_work(k)), for k = 1..4 in turn; then
\* the joins start with t1.
MtSpawn ==
    /\ mainpc.fn = "multi_threaded"
    /\ mainpc.op = "spawn"
    /\ thread' = [thread EXCEPT ![mainpc.k] = "spawned"]
    /\ mainpc' = IF mainpc.k = NumJoined
                 THEN [mainpc EXCEPT !.op = "join", !.k = 1]
                 ELSE [mainpc EXCEPT !.k = @ + 1]
    /\ UNCHANGED <<asyncVars, out, now, wakeAt, printed, late, conn>>

\* do_work(k) on its thread: the start line, then sleep(..) begins.
WorkStart(k) ==
    /\ thread[k] = "spawned"
    /\ out' = Append(out, StartMsg(k, ThreadOf(k)))
    /\ thread' = [thread EXCEPT ![k] = "sleeping"]
    /\ wakeAt' = [wakeAt EXCEPT ![k] = now + Delay]
    /\ UNCHANGED <<asyncVars, now, mainpc, printed, late, conn>>

\* sleep(..) returns, no earlier than Delay after it began; then the done
\* line; do_work returns and the thread ends.
WorkDone(k) ==
    /\ thread[k] = "sleeping"
    /\ now >= wakeAt[k]
    /\ out' = Append(out, DoneMsg(k, ThreadOf(k)))
    /\ thread' = [thread EXCEPT ![k] = "finished"]
    /\ UNCHANGED <<asyncVars, now, wakeAt, mainpc, printed, late, conn>>

\* Threads that are never joined: main goes on at once.
MtJoinDetached ==
    /\ mainpc.fn = "multi_threaded"
    /\ mainpc.op = "join"
    /\ mainpc' = IF mainpc.k = NumJoined
                 THEN [mainpc EXCEPT !.op = "returned"]
                 ELSE [mainpc EXCEPT !.k = @ + 1]
    /\ UNCHANGED <<asyncVars, out, now, thread, wakeAt, printed, late, conn>>

\* tk.join().unwrap(): returns once thread k has ended; after t4,
\* multi_threaded returns.
MtJoin ==
    /\ mainpc.fn = "multi_threaded"
    /\ mainpc.op = "join"
    /\ thread[mainpc.k] = "finished"
    /\ mainpc' = IF mainpc.k = NumJoined
                 THEN [mainpc EXCEPT !.op = "returned"]
                 ELSE [mainpc EXCEPT !.k = @ + 1]
    /\ UNCHANGED <<asyncVars, out, now, thread, wakeAt, printed, late, conn>>

\* The main thread waits in a join and every thread that has not ended is in
\* its sleep, on time.
MtWaiting ==
    /\ mainpc.fn = "multi_threaded"
    /\ mainpc.op = "join"
    /\ thread[mainpc.k] # "finished"
    /\ \A k \in Labels : thread[k] \in {"sleeping", "finished"}
    /\ \A k \in Labels : thread[k] = "sleeping" => wakeAt[k] > now

\* Time passes during the sleeps of the threads.
MtTick ==
    /\ MtWaiting
    /\ now' = Min({now + TickStep} \union {wakeAt[k] : k \in {j \in Labels : thread[j] = "sleeping"}})
    /\ UNCHANGED <<asyncVars, out, mtVars, printed, late, conn>>

\* multi_threaded() has returned and main calls block_on(async_seq()).
MultiThreadedReturn ==
    /\ mainpc.fn = "multi_threaded"
    /\ mainpc.op = "returned"
    /\ mainpc' = [fn |-> "async_seq", op |-> "block_on", k |-> 1]
    /\ printed' = printed + Len(out)
    /\ out' = <<>>
    /\ thread' = [k \in Labels |-> "none"]
    /\ wakeAt' = [k \in Labels |-> 0]
    /\ UNCHANGED <<asyncVars, now, late, conn>>

\* ---------------------------------------------------------------- main
\* block_on(async_seq()) has returned, the futures of async_seq are gone and
\* their timeout threads have ended; main calls block_on(async_concurrent()).
AsyncSeqReturn ==
    /\ mainpc.fn = "async_seq"
    /\ exec = "done"
    /\ mainpc' = [fn |-> "async_concurrent", op |-> "block_on", k |-> 1]
    /\ printed' = printed + Len(out)
    /\ out' = <<>>
    /\ gen' = [t \in Labels |-> "none"]
    /\ flag' = [t \in Labels |-> FALSE]
    /\ timer' = [t \in Labels |-> "none"]
    /\ deadline' = [t \in Labels |-> 0]
    /\ woken' = [t \in Labels |-> FALSE]
    /\ last' = NoPoll
    /\ created' = [t \in Labels |-> -1]
    /\ doneAt' = [t \in Labels |-> -1]
    /\ exec' = "init"
    /\ idx' = 0
    /\ UNCHANGED <<dropped, poll, panicked, now, thread, wakeAt, late, conn>>

\* block_on(async_concurrent()) has returned, and main returns.
MainExit ==
    /\ mainpc.fn = "async_concurrent"
    /\ exec = "done"
    /\ mainpc' = [fn |-> "exit", op |-> "returned", k |-> 1]
    /\ UNCHANGED <<asyncVars, out, now, thread, wakeAt, printed, late, conn>>

\* Every thread of main that has not ended is waiting, on time.
OnTime == SequentialWaiting \/ MtWaiting \/ SeqWaiting \/ ConcWaiting

\* Time passes while a thread of main that could run has not run, or sleeps
\* on after Delay.
MainOverrun ==
    /\ late + LateStep <= MaxLate
    /\ mainpc.fn # "exit"
    /\ ~OnTime
    /\ now' = now + LateStep
    /\ late' = late + LateStep
    /\ UNCHANGED <<asyncVars, out, mtVars, printed, conn>>

NextSequential ==
    \/ SequentialStart
    \/ SequentialDone
    \/ SequentialTick
    \/ SequentialReturn

NextMt ==
    \/ MtSpawn
    \/ \E k \in Labels : WorkStart(k)
    \/ \E k \in Labels : WorkDone(k)
    \/ MtJoin
    \/ MtTick
    \/ MultiThreadedReturn

NextSeq ==
    \/ SeqBlockOn
    \/ SeqCall
    \/ SeqEnter
    \/ SeqLoad
    \/ SeqBranch
    \/ SeqUnpark
    \/ SeqTick
    \/ AsyncSeqReturn

NextConc ==
    \/ BlockOn
    \/ ConcCall
    \/ ConcEnter
    \/ ConcSkip
    \/ ConcLoad
    \/ ConcBranch
    \/ ConcJoin
    \/ Unpark
    \/ \E t \in Labels : TimerStore(t)
    \/ ConcTick
    \/ MainOverrun
    \/ MainExit

NextMain ==
    \/ NextSequential
    \/ NextMt
    \/ NextSeq
    \/ NextConc

\* main(): the four functions one after the other.
SpecMain == Init /\ [][NextMain]_vars

\* The states in which main calls block_on(async_concurrent()): the three
\* functions before it have printed their lines and taken their sleeps. The
\* clock is behind by the overruns that delayed a sleep or a step; an overrun
\* of multi_threaded that fell within the sleep of a thread started later
\* delayed nothing, and there is at most one of these for each that did.
InitConc ==
    /\ gen = [t \in Labels |-> "none"]
    /\ dropped = [t \in Labels |-> "no"]
    /\ flag = [t \in Labels |-> FALSE]
    /\ timer = [t \in Labels |-> "none"]
    /\ deadline = [t \in Labels |-> 0]
    /\ woken = [t \in Labels |-> FALSE]
    /\ poll = Idle
    /\ last = NoPoll
    /\ out = <<>>
    /\ created = [t \in Labels |-> -1]
    /\ doneAt = [t \in Labels |-> -1]
    /\ panicked = FALSE
    /\ late \in {l \in 0..MaxLate : l % LateStep = 0}
    /\ \E l \in 0..late :
        /\ l % LateStep = 0
        /\ late - l <= l
        /\ now = (2 * NumJoined + 1) * Delay + l
    /\ exec = "init"
    /\ idx = 0
    /\ thread = [k \in Labels |-> "none"]
    /\ wakeAt = [k \in Labels |-> 0]
    /\ mainpc = [fn |-> "async_concurrent", op |-> "block_on", k |-> 1]
    /\ printed = 6 * NumJoined
    /\ conn = [c \in Conns |-> NoConn]

\* block_on(async_concurrent()) from the call on, with the executor running
\* and polling a woken task again, the timeout threads scheduled and time
\* passing.
FairConc ==
    /\ InitConc
    /\ [][NextConc]_vars
    /\ WF_vars(ConcExec)
    /\ WF_vars(ConcTick)
    /\ \A t \in Labels : WF_vars(TimerStore(t))

\* ------------------------------------------------------- echo server
\* listen: incoming.next() yields the stream of connection c, and
\* tokio::spawn_async(handle(stream)) starts its handler at the top of the loop.
Accept(c) ==
    /\ conn[c].pc = "none"
    /\ conn' = [conn EXCEPT ![c].pc = "read"]
    /\ UNCHANGED <<asyncVars, out, now, mtVars, printed, late>>

\* The number of bytes the peers of connections 1..c have sent.
RECURSIVE SentUpTo(_)
SentUpTo(c) == IF c = 0 THEN 0 ELSE Len(conn[c].sent) + SentUpTo(c - 1)

\* The peer sends one more byte on connection c; the peers send at most
\* MaxSent bytes in all.
PeerSend(c, b) ==
    /\ conn[c].pc # "none"
    /\ ~conn[c].closed
    /\ SentUpTo(MaxConns) < MaxSent
    /\ conn' = [conn EXCEPT ![c].sent = Append(@, b)]
    /\ UNCHANGED <<asyncVars, out, now, mtVars, printed, late>>

\* The peer closes its side of connection c.
PeerClose(c) ==
    /\ conn[c].pc # "none"
    /\ ~conn[c].closed
    /\ conn' = [conn EXCEPT ![c].closed = TRUE]
    /\ UNCHANGED <<asyncVars, out, now, mtVars, printed, late>>

\* The bytes of the stream that no read has returned yet.
Unread(c) == SubSeq(conn[c].sent, conn[c].rd + 1, Len(conn[c].sent))

\* buf after a read has put the bytes d at its start.
Fill(buf, d) == d \o SubSeq(buf, Len(d) + 1, Len(buf))

\* await!(stream.read_async(&mut buf)).unwrap(): n > 0 bytes that have
\* arrived, at most the length of buf, are put at the start of buf; or 0 when
\* the peer has closed and nothing is left, and the loop breaks.
Read(c) ==
    /\ conn[c].pc = "read"
    /\ \/ \E n \in 1..Len(Unread(c)) :
            /\ n <= BufLen
            /\ conn' = [conn EXCEPT ![c].buf = Fill(@, SubSeq(Unread(c), 1, n)),
                                    ![c].rd = @ + n,
                                    ![c].n = n,
                                    ![c].wpos = 0,
                                    ![c].pc = "write"]
       \/ /\ Unread(c) = <<>>
          /\ conn[c].closed
          /\ conn' = [conn EXCEPT ![c].n = 0, ![c].wpos = 0, ![c].pc = "done"]
    /\ UNCHANGED <<asyncVars, out, now, mtVars, printed, late>>

\* write_all_async(&buf): the whole of what reads have put in buf.
WriteWholeBuf(c) ==
    /\ conn[c].pc = "write"
    /\ conn' = [conn EXCEPT ![c].wr = @ \o conn[c].buf,
                            ![c].wpos = conn[c].n,
                            ![c].pc = "read"]
    /\ UNCHANGED <<asyncVars, out, now, mtVars, printed, late>>

\* await!(stream.write_all_async(&buf[0..n])).unwrap(): the stream takes the
\* next m > 0 of the bytes of buf[0..n] not yet written; when all n are
\* written the loop goes back to the read.
Write(c) ==
    /\ conn[c].pc = "write"
    /\ \E m \in 1..(conn[c].n - conn[c].wpos) :
          conn' = [conn EXCEPT ![c].wr = @ \o SubSeq(conn[c].buf, conn[c].wpos + 1,
                                                     conn[c].wpos + m),
                               ![c].wpos = @ + m,
                               ![c].pc = IF conn[c].wpos + m = conn[c].n
                                         THEN "read" ELSE "write"]
    /\ UNCHANGED <<asyncVars, out, now, mtVars, printed, late>>

\* The read or the write returns an error: unwrap() panics and the handler
\* ends.
IoError(c) ==
    /\ conn[c].pc \in {"read", "write"}
    /\ conn' = [conn EXCEPT ![c].pc = "panicked"]
    /\ UNCHANGED <<asyncVars, out, now, mtVars, printed, late>>

NextEcho ==
    \/ \E c \in Conns : Accept(c)
    \/ \E c \in Conns : \E b \in Bytes : PeerSend(c, b)
    \/ \E c \in Conns : PeerClose(c)
    \/ \E c \in Conns : Read(c)
    \/ \E c \in Conns : Write(c)
    \/ \E c \in Conns : IoError(c)

SpecEcho == Init /\ [][NextEcho]_vars

\* ================================================================ claims
Started(t) == gen[t] \in {"running", "suspended", "returned"}
Polling(t) == poll.task = t
ReadTrue(t) == poll.task = t /\ poll.pc = "branch" /\ poll.read

\* C1: under block_on, with the timeout threads scheduled and time passing,
\* each task prints at most one "starting work x" and at most one
\* "work done! x", a done line only after its start line, and once the task
\* has been created its done line is eventually printed.
C1_StartThenDoneOnce ==
    /\ [](\A x \in Labels :
            /\ Starts(x) <= 1
            /\ Dones(x) <= 1
            /\ Dones(x) = 1 =>
                 Starts(x) = 1 /\ FirstIndex("starting work", x) < FirstIndex("work done!", x))
    /\ \A x \in Labels : [](gen[x] # "none" => <>(Starts(x) = 1 /\ Dones(x) = 1))

C1_Witness ==
    /\ exec = "done"
    /\ \A x \in Labels : Starts(x) = 1 /\ Dones(x) = 1

\* C2: a poll whose load read false returned Pending and called the waker
\* exactly once, and a wake request for t appears only in the step that ends
\* such a poll of t (never in a step of a timeout thread).
C2_PendingWakes ==
    /\ []((last.loaded /\ ~last.read) => (last.result = "Pending" /\ last.wakes = 1))
    /\ [][\A t \in Labels :
            (woken'[t] /\ ~woken[t]) =>
                (poll.task = t /\ poll.pc = "branch" /\ ~poll.read /\ poll'.task = 0)]_vars

C2_Witness ==
    /\ last.loaded /\ ~last.read
    /\ last.result = "Pending"
    /\ woken[last.task]

\* C3: the last poll returned Ready exactly if it loaded the flag as true, and
\* then it printed the done line of its own label and did not call the waker.
C3_ReadyIffTrue ==
    /\ last.result = "Ready" <=> (last.loaded /\ last.read)
    /\ last.result = "Ready" =>
         (last.out = <<DoneMsg(last.task, "main")>> /\ last.wakes = 0)

C3_Witness ==
    /\ last.result = "Ready"
    /\ Dones(last.task) = 1
    /\ ~woken[last.task]

\* C4: the flag is false until the timeout thread stores, it changes only in
\* that store and only from false to true, and once a poll has read it as
\* true it stays true.
C4_FlagMonotonic ==
    /\ [](\A t \in Labels : timer[t] # "done" => ~flag[t])
    /\ [][\A t \in Labels :
            /\ flag'[t] # flag[t] => (~flag[t] /\ timer[t] = "sleeping" /\ timer'[t] = "done")
            /\ (ReadTrue(t) \/ gen[t] = "returned") => flag'[t]]_vars

C4_Witness ==
    \E t \in Labels : gen[t] = "returned" /\ flag[t] /\ timer[t] = "done"

\* C5 as stated: in async_concurrent every task returns Ready no later than
\* Delay after the four calls.
C5_Original ==
    mainpc.fn = "async_concurrent" =>
        \A t \in Labels : \A u \in Labels :
            (doneAt[t] >= 0 /\ created[u] >= 0) => doneAt[t] - created[u] <= Delay

\* C5: in async_concurrent a task returns Ready no earlier than Delay after
\* its call, and no later than Delay plus the time the threads have run late
\* after any of the four calls; the sleep of every timeout thread ends within
\* that time of every call, and no task is pending beyond it.
C5_ReadyWithinOneDelay ==
    mainpc.fn = "async_concurrent" =>
        \A t \in Labels : \A u \in Labels :
            /\ doneAt[t] >= 0 => doneAt[t] - created[t] >= Delay
            /\ (doneAt[t] >= 0 /\ created[u] >= 0) =>
                    doneAt[t] - created[u] <= Delay + late
            /\ (timer[t] # "none" /\ created[u] >= 0) =>
                    deadline[t] - created[u] <= Delay + late
            /\ (created[t] >= 0 /\ doneAt[t] < 0) => now - created[t] <= Delay + late

C5_Witness ==
    /\ mainpc.fn = "async_concurrent"
    /\ exec = "done"
    /\ doneAt[1] = created[1] + Delay
    /\ \E t \in Labels : doneAt[t] = created[1] + Delay + LateStep

\* C6: a poll has read true, returned Ready or printed the done line of t only
\* if the timeout thread of t has finished its sleep and stored.
C6_StoreBeforeReady ==
    \A t \in Labels :
        (ReadTrue(t) \/ gen[t] = "returned" \/ Dones(t) > 0
            \/ (last.task = t /\ last.result = "Ready"))
        => (timer[t] = "done" /\ now >= deadline[t])

C6_Witness ==
    \E t \in Labels : last.task = t /\ last.result = "Ready" /\ timer[t] = "done"

\* C7: a poll in progress can always take its next step, and a future that is
\* not done can always be polled when no poll is in progress, whatever the
\* timeout threads are doing.
C7_PollNeverBlocks ==
    /\ poll.task # 0 => ENABLED (DriverLoad \/ DriverBranch)
    /\ \A t \in Labels :
         (poll.task = 0 /\ ~panicked /\ dropped[t] = "no"
            /\ gen[t] \in {"unresumed", "suspended"}) => ENABLED DriverEnter(t)

C7_Witness ==
    \E t \in Labels : \E u \in Labels :
        /\ timer[t] = "sleeping" /\ gen[t] = "suspended"
        /\ gen[u] = "returned" /\ last.task = u /\ last.result = "Ready"

\* C8 as stated: once do_work_async(t) has been called, the start line has
\* been printed and the timeout thread exists.
C8_Original ==
    \A t \in Labels : gen[t] # "none" => (Starts(t) = 1 /\ timer[t] # "none")

\* C8: the call only creates the future; the start line is printed and the
\* timeout thread spawned by the first poll, so a future polled zero times
\* has printed nothing and has no timeout thread.
C8_StartsAtFirstPoll ==
    \A t \in Labels :
        /\ gen[t] \in {"none", "unresumed"} => (Starts(t) = 0 /\ timer[t] = "none")
        /\ Started(t) => (Starts(t) = 1 /\ timer[t] # "none")

C8_Witness ==
    \E t \in Labels : \E u \in Labels :
        /\ gen[t] = "unresumed" /\ dropped[t] = "none" /\ Starts(t) = 0
        /\ Started(u) /\ Starts(u) = 1 /\ timer[u] # "none"

\* C9 as stated: a task prints its done line at most once and no poll panics.
C9_Original ==
    /\ \A t \in Labels : Dones(t) <= 1
    /\ ~panicked

\* C9: a task returns Ready and prints its done line at most once, and a poll
\* after it has returned panics without loading, printing or waking.
C9_ReadyOnceThenPanic ==
    /\ \A t \in Labels : Dones(t) <= 1 /\ (gen[t] = "returned" <=> Dones(t) = 1)
    /\ panicked <=> last.result = "panic"
    /\ last.result = "panic" =>
         /\ gen[last.task] = "returned"
         /\ ~last.loaded /\ last.out = <<>> /\ last.wakes = 0
         /\ ~woken[last.task]
    /\ (last.task # 0 /\ poll.task = 0 /\ gen[last.task] = "returned")
         => last.result \in {"Ready", "panic"}

C9_Witness ==
    /\ panicked
    /\ Dones(last.task) = 1

\* C10: dropping the future leaves its timeout thread as it is, and a timeout
\* thread that is sleeping eventually stores true and ends, dropped or not.
C10_TimerOutlivesDrop ==
    /\ [][\A t \in Labels : dropped'[t] # dropped[t] => timer'[t] = timer[t]]_vars
    /\ \A t \in DriverTasks : (timer[t] = "sleeping") ~> (timer[t] = "done" /\ flag[t])

C10_Witness ==
    \E t \in Labels : dropped[t] = "sleeping" /\ timer[t] = "done" /\ flag[t]

\* The labels of the start lines, and of the done lines, in the order printed.
StartOrder ==
    LET S == SelectSeq(out, LAMBDA m : m.kind = "starting work")
    IN [i \in 1..Len(S) |-> S[i].x]
DoneOrder ==
    LET S == SelectSeq(out, LAMBDA m : m.kind = "work done!")
    IN [i \in 1..Len(S) |-> S[i].x]
IsPrefix(s, r) == Len(s) <= Len(r) /\ \A i \in 1..Len(s) : s[i] = r[i]

\* C11: a step changes the flag of a task only if it is the store of that
\* task's timeout thread, and then no other task's flag or thread changes; a
\* step of a poll leaves every flag as it is.
C11_FlagFrame ==
    [][/\ \A t \in Labels :
            flag'[t] # flag[t] =>
                /\ timer[t] = "sleeping" /\ timer'[t] = "done"
                /\ \A u \in Labels \ {t} : flag'[u] = flag[u] /\ timer'[u] = timer[u]
       /\ poll' # poll => flag' = flag]_vars

C11_Witness ==
    \E t \in Labels : \E u \in Labels :
        /\ flag[t] /\ last.task = t /\ last.result = "Ready"
        /\ ~flag[u] /\ gen[u] = "suspended" /\ timer[u] = "sleeping"

\* C12 as stated: a load made before the delay has elapsed reads false, and
\* the load of a later poll (one after a poll of the task returned Pending),
\* made once at least the delay has elapsed, reads true.
C12_Original ==
    [][\A t \in Labels :
        (poll.task = t /\ poll.pc = "load" /\ poll'.pc = "branch") =>
            /\ now < deadline[t] => ~poll'.read
            /\ (now >= deadline[t] /\ last.task = t /\ last.result = "Pending")
                  => poll'.read]_vars

\* C12: a load made before the delay has elapsed reads false, a load made
\* after the timeout thread's store (never earlier than the delay) reads
\* true, and the poll returns Pending for false and Ready, with the done line
\* of its label, for true.
C12_EndToEnd ==
    /\ [](\A t \in Labels : timer[t] = "done" => now >= deadline[t])
    /\ [][/\ \A t \in Labels :
              (poll.task = t /\ poll.pc = "load" /\ poll'.pc = "branch") =>
                  /\ now < deadline[t] => ~poll'.read
                  /\ timer[t] = "done" => poll'.read
          /\ (poll.pc = "branch" /\ poll'.pc = "idle") =>
                  /\ last'.task = poll.task
                  /\ last'.result = IF poll.read THEN "Ready" ELSE "Pending"
                  /\ poll.read => last'.out = <<DoneMsg(poll.task, "main")>>]_vars

C12_Witness ==
    \E t \in Labels : \E u \in Labels :
        /\ last.task = t /\ last.result = "Ready" /\ timer[t] = "done"
        /\ gen[u] = "suspended" /\ now < deadline[u]

\* C13: under block_on, a task suspended after a Pending poll has a wake
\* request outstanding or is still to be polled in the pass in progress, and
\* with the executor, the timeout threads and the clock fair it eventually
\* returns Ready.
C13_NoLostWake ==
    /\ [](\A t \in Labels :
            gen[t] = "suspended" => (woken[t] \/ (exec = "join" /\ idx <= t)))
    /\ \A t \in Labels : (gen[t] = "suspended") ~> (gen[t] = "returned")

C13_Witness ==
    \E t \in Labels :
        poll.task = t /\ poll.pc = "branch" /\ ~poll.read /\ flag[t]

\* C14: in async_seq the lines are printed in the order start 1, done 1, ...,
\* start 4, done 4; the next task is called, started and its timeout thread
\* spawned only after the done line of the one before; at most one task is
\* pending at any time.
C14_OneAfterAnother ==
    mainpc.fn = "async_seq" =>
        /\ IsPrefix(out, [i \in 1..(2 * NumJoined) |->
                            IF i % 2 = 1 THEN StartMsg((i + 1) \div 2, "main")
                                         ELSE DoneMsg(i \div 2, "main")])
        /\ \A k \in Labels \ {NumJoined} :
             (gen[k + 1] # "none" \/ timer[k + 1] # "none" \/ Starts(k + 1) > 0)
                => (Dones(k) = 1 /\ gen[k] = "returned")
        /\ Cardinality({t \in Labels : gen[t] \in {"unresumed", "running", "suspended"}}) <= 1

C14_Witness ==
    /\ mainpc.fn = "async_seq"
    /\ exec = "done"
    /\ Len(out) = 2 * NumJoined
    /\ \A t \in Labels : gen[t] = "returned"

\* C15: in async_concurrent the start lines come in label order, all of them
\* before the first poll of join! returns; join! never polls a child that has
\* returned Ready (so nothing panics); block_on returns only when all four
\* have returned Ready. main calls it in a state of InitConc.
C15_JoinedRun ==
    /\ [](mainpc.fn = "async_concurrent" =>
            /\ exec = "init" => InitConc
            /\ IsPrefix(StartOrder, [i \in 1..NumJoined |-> i])
            /\ exec \in {"parked", "done"} => \A t \in Labels : Starts(t) = 1
            /\ exec = "parked" \/ idx = NumJoined + 1 => Len(StartOrder) = NumJoined
            /\ ~panicked
            /\ exec = "done" => \A t \in Labels : gen[t] = "returned" /\ Dones(t) = 1)
    /\ [][\A t \in Labels : gen[t] = "returned" => poll'.task # t]_vars

C15_Witness ==
    /\ mainpc.fn = "async_concurrent"
    /\ exec = "done"
    /\ DoneOrder = <<4, 3, 2, 1>>

\* C16: each worker's lines are printed on its own thread, at most once each,
\* its done line after its start line; a join of tk is passed only when
\* thread k has ended; multi_threaded has returned only when all four
\* threads have printed their done line and ended, and the async functions
\* of main begin only with the lines of sequential and multi_threaded on
\* stdout.
C16_WorkersJoined ==
    /\ mainpc.fn = "multi_threaded" =>
         /\ \A i \in 1..Len(out) : out[i].thread = ThreadOf(out[i].x)
         /\ \A k \in Labels :
              /\ Starts(k) <= 1 /\ Dones(k) <= 1
              /\ Dones(k) = 1 =>
                   Starts(k) = 1 /\ FirstIndex("starting work", k) < FirstIndex("work done!", k)
              /\ thread[k] = "finished" <=> Dones(k) = 1
              /\ (mainpc.op = "join" /\ k < mainpc.k) => thread[k] = "finished"
         /\ mainpc.op = "returned" =>
              \A k \in Labels : thread[k] = "finished" /\ Dones(k) = 1
    /\ mainpc.fn \in {"async_seq", "async_concurrent", "exit"} =>
         printed >= 4 * NumJoined

C16_Witness ==
    /\ mainpc.fn = "multi_threaded"
    /\ mainpc.op = "returned"
    /\ StartOrder = <<4, 1, 3, 2>>
    /\ DoneOrder = <<2, 3, 1, 4>>

\* What the reads of connection c have returned so far.
ReadSoFar(c) == SubSeq(conn[c].sent, 1, conn[c].rd)

\* C17: on every connection, what has been written back is what the reads
\* have returned, in order, whenever the handler is at a read or has
\* stopped; during a write it is that without the bytes of buf[0..n] still to
\* be written; the handler stops only on a read of 0 (peer closed, nothing
\* unread), and once it has stopped nothing more is written.
C17_EchoesWhatItRead ==
    /\ [](\A c \in Conns :
            /\ conn[c].pc \in {"none", "read", "done"} => conn[c].wr = ReadSoFar(c)
            /\ conn[c].pc = "write" =>
                 /\ conn[c].n > 0 /\ conn[c].wpos < conn[c].n
                 /\ conn[c].wr \o SubSeq(conn[c].buf, conn[c].wpos + 1, conn[c].n)
                      = ReadSoFar(c)
            /\ IsPrefix(conn[c].wr, ReadSoFar(c))
            /\ conn[c].pc = "done" =>
                 (conn[c].n = 0 /\ conn[c].closed /\ conn[c].rd = Len(conn[c].sent)))
    /\ [][\A c \in Conns :
            /\ conn[c].pc \in {"done", "panicked"} =>
                 /\ conn'[c].pc = conn[c].pc
                 /\ conn'[c].wr = conn[c].wr /\ conn'[c].rd = conn[c].rd
            /\ conn'[c].rd # conn[c].rd => conn[c].wr = ReadSoFar(c)]_vars

C17_Witness ==
    \E c \in Conns :
        /\ conn[c].pc = "done"
        /\ conn[c].sent = <<"a", "b", "a">>
        /\ conn[c].wr = <<"a", "b", "a">>
        /\ Len(conn[c].buf) = 2

====
